---- MODULE Spec2Model ----
(***************************************************************************)
(* ResuMate: the two server endpoints /api/extract and /api/analyze.       *)
(*                                                                         *)
(* Strings are sequences of characters (one-character TLA+ strings), so    *)
(* that toLowerCase, endsWith, trim and the regular-expression replaces    *)
(* are computed and not assumed.                                           *)
(***************************************************************************)
EXTENDS Integers, Sequences, FiniteSets, TLC

(***************************************************************************)
(* Bounds of the model.                                                    *)
(***************************************************************************)
\* longest text a parser returns as one string
MaxLen == 5
\* most pages the PDF parser returns as an array of strings
MaxPages == 2
\* longest text of one page of such an array
MaxPageLen == 1

VARIABLES
    ePc,        \* /api/extract: "idle", "parsing" (awaiting the parser), "done"
    eReq,       \* /api/extract: the request being handled
    eParser,    \* /api/extract: parser invoked for this request: "none", "pdf", "docx"
    eParsed,    \* /api/extract: how the parser ended: "no", "threw", "returned"
    eRaw,       \* /api/extract: extractedText before the clean-up
    eResp,      \* /api/extract: the response
    aPc,        \* /api/analyze: "idle", "calling" (awaiting the completion), "done"
    aReq,       \* /api/analyze: the request: [key, raw]
    aCalls,     \* /api/analyze: completion calls issued for this request
    aPrompt,    \* /api/analyze: what buildPrompt put into the prompt
    aReply,     \* /api/analyze: how the completion call ended
    aResp,      \* /api/analyze: the response
    page,       \* browser: the page shown, "home" or "results"
    storage,    \* browser: sessionStorage "analysisResult" (<<>> when there is no item)
    cFile,      \* Home: selectedFile
    cText,      \* Home: resumeText
    cJob,       \* Home: jobDescription
    cError,     \* Home: error
    cLoading,   \* Home: isLoading
    cMessage,   \* Home: loadingMessage
    cPc,        \* handleAnalyze: "idle", "extracting" or "analyzing" (the pending fetch)
    cLog,       \* handleAnalyze: what has happened in the flow started last
    rPc,        \* ResultsPage: "unmounted", "loading" (before the effect) or "shown"
    rResult     \* ResultsPage: result

evars == <<ePc, eReq, eParser, eParsed, eRaw, eResp>>
avars == <<aPc, aReq, aCalls, aPrompt, aReply, aResp>>
cvars == <<page, storage, cFile, cText, cJob, cError, cLoading, cMessage, cPc, cLog, rPc, rResult>>
vars == <<ePc, eReq, eParser, eParsed, eRaw, eResp, aPc, aReq, aCalls, aPrompt, aReply, aResp,
          page, storage, cFile, cText, cJob, cError, cLoading, cMessage, cPc, cLog, rPc, rResult>>

(***************************************************************************)
(* Characters and strings.                                                 *)
(***************************************************************************)
\* the characters JavaScript's \s and String.prototype.trim treat as white space
IsWs(c) == c \in {" ", "\n", "\t"}

\* String.prototype.toLowerCase, per character
LowerChar(c) ==
    CASE c = "P" -> "p" [] c = "D" -> "d" [] c = "F" -> "f"
      [] c = "O" -> "o" [] c = "C" -> "c" [] c = "X" -> "x"
      [] c = "A" -> "a" [] c = "T" -> "t"
      [] OTHER -> c

\* the file name used as it was sent
toLowerCaseSkipped(s) == s

toLowerCase(s) == [i \in 1..Len(s) |-> LowerChar(s[i])]

\* String.prototype.endsWith
endsWith(s, suffix) ==
    /\ Len(suffix) <= Len(s)
    /\ SubSeq(s, Len(s) - Len(suffix) + 1, Len(s)) = suffix

RECURSIVE TrimStart(_)
TrimStart(s) ==
    IF s = <<>> THEN <<>>
    ELSE IF IsWs(Head(s)) THEN TrimStart(Tail(s)) ELSE s

RECURSIVE TrimEnd(_)
TrimEnd(s) ==
    IF s = <<>> THEN <<>>
    ELSE IF IsWs(s[Len(s)]) THEN TrimEnd(SubSeq(s, 1, Len(s) - 1)) ELSE s

\* String.prototype.trim
trim(s) == TrimEnd(TrimStart(s))

\* .replace(/\s\s/g, " "): the pattern without its quantifier, pairs only
RECURSIVE CollapseWsPairs(_)
CollapseWsPairs(s) ==
    IF s = <<>> THEN <<>>
    ELSE IF Len(s) >= 2 /\ IsWs(s[1]) /\ IsWs(s[2])
         THEN <<" ">> \o CollapseWsPairs(SubSeq(s, 3, Len(s)))
         ELSE <<Head(s)>> \o CollapseWsPairs(Tail(s))

\* .replace(/\s+/g, " "): every maximal run of white space becomes one space
RECURSIVE CollapseWs(_)
CollapseWs(s) ==
    IF s = <<>> THEN <<>>
    ELSE IF IsWs(Head(s))
         THEN <<" ">> \o CollapseWs(TrimStart(s))
         ELSE <<Head(s)>> \o CollapseWs(Tail(s))

\* index of the last "\n" of the white-space run that starts at s[i], 0 if none
RECURSIVE LastNewlineInRun(_, _)
LastNewlineInRun(s, i) ==
    IF i > Len(s) \/ ~IsWs(s[i]) THEN 0
    ELSE LET later == LastNewlineInRun(s, i + 1)
         IN IF later # 0 THEN later
            ELSE IF s[i] = "\n" THEN i ELSE 0

\* .replace(/\n\s*\n/g, "\n\n"): leftmost matches, \s* greedy
RECURSIVE CollapseBlankLines(_)
CollapseBlankLines(s) ==
    IF s = <<>> THEN <<>>
    ELSE IF Head(s) = "\n" /\ LastNewlineInRun(s, 2) # 0
         THEN <<"\n", "\n">>
              \o CollapseBlankLines(SubSeq(s, LastNewlineInRun(s, 2) + 1, Len(s)))
         ELSE <<Head(s)>> \o CollapseBlankLines(Tail(s))

\* the clean-up without its final .trim()
CleanUpNoTrim(s) == CollapseBlankLines(CollapseWs(s))

\* the clean-up of the extracted text
CleanUp(s) == trim(CollapseBlankLines(CollapseWs(s)))

\* Array.prototype.join("\n")
RECURSIVE JoinPages(_)
JoinPages(pages) ==
    IF pages = <<>> THEN <<>>
    ELSE IF Len(pages) = 1 THEN pages[1]
    ELSE pages[1] \o <<"\n">> \o JoinPages(Tail(pages))

(***************************************************************************)
(* /api/extract                                                            *)
(***************************************************************************)
ErrNoFile == "No file provided"
ErrLegacyDoc == "Legacy .doc format is not supported. Please convert to .docx or PDF."
ErrUnsupported == "Unsupported file format. Please upload a PDF or Word document (.docx)."
ErrEmptyOrCorrupt == "Could not extract text from the file. The file may be empty or corrupted."
ErrExtractFailed == "Failed to extract text from file"

DotPdf == <<".", "p", "d", "f">>
DotDocx == <<".", "d", "o", "c", "x">>
DotDoc == <<".", "d", "o", "c">>

MimePdf == "application/pdf"
MimeDocx == "application/vnd.openxmlformats-officedocument.wordprocessingml.document"

\* no response sent yet
NoExtractResp == [status |-> 0, error |-> "", details |-> "absent", text |-> <<>>]

\* NextResponse.json({ error }, { status })
ExtractError(status, error) ==
    [status |-> status, error |-> error, details |-> "absent", text |-> <<>>]

\* the catch block: 500 with details error.message
ExtractCaught ==
    [status |-> 500, error |-> ErrExtractFailed, details |-> "error.message", text |-> <<>>]

\* NextResponse.json({ text: extractedText })
ExtractOk(text) == [status |-> 200, error |-> "", details |-> "absent", text |-> text]

\* String.prototype.includes
includes(s, part) ==
    \E i \in 1..(Len(s) - Len(part) + 1) : SubSeq(s, i, i + Len(part) - 1) = part

\* the chain written with includes in place of endsWith
DispatchIncludes(fileName) ==
    IF includes(fileName, <<".", "p", "d", "f">>) THEN "pdf"
    ELSE IF includes(fileName, <<".", "d", "o", "c", "x">>) THEN "docx"
    ELSE IF includes(fileName, <<".", "d", "o", "c">>) THEN "legacy"
    ELSE "unsupported"

\* the if / else-if chain on the lower-cased file name
Dispatch(fileName) ==
    IF endsWith(fileName, DotPdf) THEN "pdf"
    ELSE IF endsWith(fileName, DotDocx) THEN "docx"
    ELSE IF endsWith(fileName, DotDoc) THEN "legacy"
    ELSE "unsupported"

\* upper-case variants, used only to build the file names of the requests
UpperChar(c) ==
    CASE c = "p" -> "P" [] c = "d" -> "D" [] c = "f" -> "F"
      [] c = "o" -> "O" [] c = "c" -> "C" [] c = "x" -> "X"
      [] c = "a" -> "A" [] c = "t" -> "T"
      [] OTHER -> c
UpperAll(s) == [i \in 1..Len(s) |-> UpperChar(s[i])]
UpperOdd(s) == [i \in 1..Len(s) |-> IF i % 2 = 1 THEN UpperChar(s[i]) ELSE s[i]]

Stems == { <<>>, <<"a">>, <<"a", ".", "d", "o", "c">>, <<"a", ".", "p", "d", "f">> }
Endings == { <<>>, DotPdf, DotDocx, DotDoc, <<".", "t", "x", "t">>,
             <<"p", "d", "f">>, <<".", "d", "o", "c", "m">>, <<".", "d", "o", "c", " ">> }
FileNames ==
    UNION { { st \o en, UpperAll(st \o en), UpperOdd(st \o en) } : st \in Stems, en \in Endings }

MimeTypes == { MimePdf, MimeDocx, "text/plain" }
ByteKinds == { "pdf", "other" }

\* the multipart requests: body that is not form data, no "file" field,
\* a "file" field that is a text value (empty or not), or an uploaded file
ExtractRequests ==
    { [body |-> "notform", field |-> "absent", name |-> <<>>, type |-> "", bytes |-> "other"] }
    \cup { [body |-> "form", field |-> f, name |-> <<>>, type |-> "", bytes |-> "other"]
              : f \in { "absent", "emptyText", "text" } }
    \cup { [body |-> "form", field |-> "file", name |-> n, type |-> t, bytes |-> b]
              : n \in FileNames, t \in MimeTypes, b \in ByteKinds }

Chars == { "a", " ", "\n" }

\* all strings over Chars of length at most n
StringsUpTo(n) == UNION { [1..k -> Chars] : k \in 0..n }

\* what a parser hands back as text: a string, or (unpdf) an array of page strings
ParsedTexts ==
    { [arr |-> FALSE, pages |-> <<s>>] : s \in StringsUpTo(MaxLen) }
PagedTexts ==
    { [arr |-> TRUE, pages |-> p] :
        p \in UNION { [1..k -> StringsUpTo(MaxPageLen)] : k \in 0..MaxPages } }

ExtractInit ==
    /\ ePc = "idle"
    /\ eReq = [body |-> "form", field |-> "absent", name |-> <<>>, type |-> "", bytes |-> "other"]
    /\ eParser = "none"
    /\ eParsed = "no"
    /\ eRaw = <<>>
    /\ eResp = NoExtractResp

\* POST, up to the await of the parser (or to the response when none is awaited)
ExtractHandle(req) ==
    /\ ePc = "idle"
    /\ eReq' = req
    /\ eParsed' = "no"
    /\ eRaw' = <<>>
    /\ IF req.body # "form"
       THEN \* request.formData() rejects
            /\ eResp' = ExtractCaught /\ eParser' = "none" /\ ePc' = "done"
       ELSE IF req.field \in { "absent", "emptyText" }
       THEN \* formData.get("file") is null or "": !file
            /\ eResp' = ExtractError(400, ErrNoFile) /\ eParser' = "none" /\ ePc' = "done"
       ELSE IF req.field = "text"
       THEN \* a non-empty string has no name: file.name.toLowerCase() throws
            /\ eResp' = ExtractCaught /\ eParser' = "none" /\ ePc' = "done"
       ELSE LET route == Dispatch(toLowerCase(req.name))
            IN IF route \in { "pdf", "docx" }
               THEN /\ eParser' = route /\ ePc' = "parsing" /\ eResp' = NoExtractResp
               ELSE IF route = "legacy"
               THEN /\ eResp' = ExtractError(400, ErrLegacyDoc)
                    /\ eParser' = "none" /\ ePc' = "done"
               ELSE /\ eResp' = ExtractError(400, ErrUnsupported)
                    /\ eParser' = "none" /\ ePc' = "done"

\* a request from any caller reaches POST
ExtractRequest(req) ==
    /\ ExtractHandle(req)
    /\ UNCHANGED <<avars, cvars>>

\* extractText / mammoth.extractRawText rejects
ParserThrows ==
    /\ ePc = "parsing"
    /\ eResp' = ExtractCaught
    /\ eParsed' = "threw"
    /\ ePc' = "done"
    /\ UNCHANGED <<eReq, eParser, eRaw>>
    /\ UNCHANGED <<avars, cvars>>

\* the rest of POST once the parser has resolved with `text`
ExtractFinish(text) ==
    LET extractedText == IF text.arr THEN JoinPages(text.pages) ELSE text.pages[1]
        cleaned == CleanUp(extractedText)
    IN /\ eRaw' = extractedText
       /\ eParsed' = "returned"
       /\ eResp' = IF cleaned = <<>> THEN ExtractError(400, ErrEmptyOrCorrupt)
                   ELSE ExtractOk(cleaned)
       /\ ePc' = "done"
       /\ UNCHANGED <<eReq, eParser>>
       /\ UNCHANGED <<avars, cvars>>

\* unpdf's extractText resolves
PdfParserReturns(text) ==
    /\ ePc = "parsing"
    /\ eParser = "pdf"
    /\ ExtractFinish(text)

\* mammoth.extractRawText resolves; result.value is a string
DocxParserReturns(text) ==
    /\ ePc = "parsing"
    /\ eParser = "docx"
    /\ ~text.arr
    /\ ExtractFinish(text)

\* the handler keeps nothing between requests: the next one starts afresh
ExtractForget ==
    /\ ePc' = "idle"
    /\ eReq' = [body |-> "form", field |-> "absent", name |-> <<>>, type |-> "", bytes |-> "other"]
    /\ eParser' = "none"
    /\ eParsed' = "no"
    /\ eRaw' = <<>>
    /\ eResp' = NoExtractResp

ExtractReset ==
    /\ ePc = "done"
    /\ ExtractForget
    /\ UNCHANGED <<avars, cvars>>

ExtractNext ==
    \/ \E req \in ExtractRequests : ExtractRequest(req)
    \/ ParserThrows
    \/ \E text \in ParsedTexts \cup PagedTexts : PdfParserReturns(text)
    \/ \E text \in ParsedTexts : DocxParserReturns(text)
    \/ ExtractReset

(***************************************************************************)
(* JSON.  A text is a sequence of tokens [k, x]; white space between       *)
(* tokens is a token of its own, since it makes a text non-empty.          *)
(***************************************************************************)
Punct(c) == [k |-> "punct", x |-> <<c>>]
Lit(w) == [k |-> "lit", x |-> <<w>>]
Num(lexeme) == [k |-> "num", x |-> <<lexeme>>]
Str(chars) == [k |-> "str", x |-> chars]
WsTok == [k |-> "ws", x |-> <<" ">>]
Junk(w) == [k |-> "junk", x |-> <<w>>]

LBrace == Punct("{")
RBrace == Punct("}")
LBrack == Punct("[")
RBrack == Punct("]")
Colon == Punct(":")
Comma == Punct(",")

\* JavaScript values
Undefined == [t |-> "undefined"]
JNull == [t |-> "null"]
JBool(b) == [t |-> "bool", b |-> b]
JNum(n) == [t |-> "num", n |-> n]
JStr(chars) == [t |-> "str", s |-> chars]
JArr(items) == [t |-> "arr", a |-> items]
JObj(members) == [t |-> "obj", o |-> members]

\* the double a number literal denotes: a literal beyond the range is Infinity
NumberValue(lexeme) == IF lexeme = "1e999" THEN "Infinity" ELSE lexeme

\* obj[key] = val on an object under construction: a repeated key keeps its
\* place and takes the later value
SetMember(members, key, val) ==
    IF \E i \in 1..Len(members) : members[i].key = key
    THEN [i \in 1..Len(members) |->
            IF members[i].key = key THEN [key |-> key, val |-> val] ELSE members[i]]
    ELSE Append(members, [key |-> key, val |-> val])

ParseFail == [ok |-> FALSE, val |-> Undefined, rest |-> <<>>]
ParseOk(val, rest) == [ok |-> TRUE, val |-> val, rest |-> rest]

RECURSIVE ParseValue(_), ParseElements(_, _), ParseMembers(_, _)
ParseValue(ts) ==
    IF ts = <<>> THEN ParseFail
    ELSE LET h == Head(ts)
             r == Tail(ts)
         IN CASE h.k = "lit" ->
                   ParseOk(IF h.x = <<"null">> THEN JNull ELSE JBool(h.x = <<"true">>), r)
              [] h.k = "num" -> ParseOk(JNum(NumberValue(h.x[1])), r)
              [] h.k = "str" -> ParseOk(JStr(h.x), r)
              [] h = LBrack ->
                   IF r # <<>> /\ Head(r) = RBrack THEN ParseOk(JArr(<<>>), Tail(r))
                   ELSE ParseElements(r, <<>>)
              [] h = LBrace ->
                   IF r # <<>> /\ Head(r) = RBrace THEN ParseOk(JObj(<<>>), Tail(r))
                   ELSE ParseMembers(r, <<>>)
              [] OTHER -> ParseFail

ParseElements(ts, acc) ==
    LET v == ParseValue(ts)
    IN IF ~v.ok \/ v.rest = <<>> THEN ParseFail
       ELSE IF Head(v.rest) = Comma THEN ParseElements(Tail(v.rest), Append(acc, v.val))
       ELSE IF Head(v.rest) = RBrack THEN ParseOk(JArr(Append(acc, v.val)), Tail(v.rest))
       ELSE ParseFail

ParseMembers(ts, acc) ==
    IF Len(ts) < 2 \/ ts[1].k # "str" \/ ts[2] # Colon THEN ParseFail
    ELSE LET v == ParseValue(SubSeq(ts, 3, Len(ts)))
         IN IF ~v.ok \/ v.rest = <<>> THEN ParseFail
            ELSE IF Head(v.rest) = Comma
                 THEN ParseMembers(Tail(v.rest), SetMember(acc, ts[1].x, v.val))
            ELSE IF Head(v.rest) = RBrace
                 THEN ParseOk(JObj(SetMember(acc, ts[1].x, v.val)), Tail(v.rest))
            ELSE ParseFail

\* white space between tokens is skipped
SkipWs(ts) == SelectSeq(ts, LAMBDA tok : tok.k # "ws")

\* JSON.parse: ok = FALSE stands for the SyntaxError
JSONparse(text) ==
    LET v == ParseValue(SkipWs(text))
    IN IF v.ok /\ v.rest = <<>> THEN v ELSE ParseFail

RECURSIVE JSONstringify(_), StringifyItems(_), StringifyMembers(_)
\* JSON.stringify: a number that is not finite is written as null
JSONstringify(v) ==
    CASE v.t = "null" -> <<Lit("null")>>
      [] v.t = "bool" -> <<Lit(IF v.b THEN "true" ELSE "false")>>
      [] v.t = "num" -> IF v.n = "Infinity" THEN <<Lit("null")>> ELSE <<Num(v.n)>>
      [] v.t = "str" -> <<Str(v.s)>>
      [] v.t = "arr" -> <<LBrack>> \o StringifyItems(v.a) \o <<RBrack>>
      [] v.t = "obj" -> <<LBrace>> \o StringifyMembers(v.o) \o <<RBrace>>

StringifyItems(items) ==
    IF items = <<>> THEN <<>>
    ELSE JSONstringify(Head(items))
         \o (IF Len(items) > 1 THEN <<Comma>> ELSE <<>>)
         \o StringifyItems(Tail(items))

StringifyMembers(members) ==
    IF members = <<>> THEN <<>>
    ELSE <<Str(Head(members).key), Colon>> \o JSONstringify(Head(members).val)
         \o (IF Len(members) > 1 THEN <<Comma>> ELSE <<>>)
         \o StringifyMembers(Tail(members))

\* v[key] for a value other than null and undefined: undefined unless v is an
\* object that has the key
Get(v, key) ==
    IF v.t = "obj" /\ \E i \in 1..Len(v.o) : v.o[i].key = key
    THEN v.o[CHOOSE i \in 1..Len(v.o) : v.o[i].key = key].val
    ELSE Undefined

\* !v
Falsy(v) ==
    \/ v.t \in { "undefined", "null" }
    \/ v.t = "str" /\ v.s = <<>>
    \/ v.t = "num" /\ v.n = "0"
    \/ v.t = "bool" /\ ~v.b

(***************************************************************************)
(* /api/analyze                                                            *)
(***************************************************************************)
\* most items of a strengths or weaknesses array in an upstream reply
MaxItems == 2

ErrResumeRequired == "Resume text is required"
ErrNoResponse == "No response from OpenAI"
ErrParse == "Failed to parse OpenAI response"
ErrStructure == "Invalid response structure from OpenAI"
ErrAnalyzeFailed == "Failed to analyze resume"

KeyResumeText == <<"resumeText">>
KeyJobDescription == <<"jobDescription">>
KeyResumeScore == <<"resumeScore">>
KeyMatchPercentage == <<"matchPercentage">>
KeyStrengths == <<"strengths">>
KeyWeaknesses == <<"weaknesses">>

NoDetails == [k |-> "absent", s |-> <<>>]
NoAnalyzeResp == [status |-> 0, error |-> "", details |-> NoDetails, body |-> <<>>]
NoPrompt == [resumeText |-> <<>>, jobDescription |-> <<>>]
NoReply == [k |-> "none", content |-> <<>>]

\* NextResponse.json(error, { status }) with error: APIError without details
AnalyzeError(status, error) ==
    [status |-> status, error |-> error, details |-> NoDetails, body |-> <<>>]

\* ... with the details left out
AnalyzeErrorContentDropped(error, content) ==
    [status |-> 500, error |-> error, details |-> [k |-> "absent", s |-> <<>>],
     body |-> <<>>]

\* ... with details: responseContent
AnalyzeErrorContent(error, content) ==
    [status |-> 500, error |-> error, details |-> [k |-> "content", s |-> content],
     body |-> <<>>]

\* the outer catch block: 500 with details error.message
AnalyzeCaught ==
    [status |-> 500, error |-> ErrAnalyzeFailed,
     details |-> [k |-> "error.message", s |-> <<>>], body |-> <<>>]

\* NextResponse.json(analysisResult)
AnalyzeOk(analysisResult) ==
    [status |-> 200, error |-> "", details |-> NoDetails,
     body |-> JSONstringify(analysisResult)]

\* the two texts buildPrompt substitutes into the template
buildPrompt(resumeText, jobDescription) ==
    [resumeText |-> resumeText.s,
     jobDescription |-> IF Falsy(jobDescription) \/ jobDescription.t # "str"
                        THEN <<>> ELSE jobDescription.s]

\* the check of body.resumeText: "reject" for the 400, "throw" when .trim is
\* not a function, "pass" otherwise
ValidateResumeText(resumeText) ==
    IF Falsy(resumeText) THEN "reject"
    ELSE IF resumeText.t # "str" THEN "throw"
    ELSE IF Len(trim(resumeText.s)) = 0 THEN "reject"
    ELSE "pass"

\* the check of the parsed reply: "throw" when a property of null is read
ValidateStructure(analysisResult) ==
    IF analysisResult.t = "null" THEN "throw"
    ELSE IF \/ Get(analysisResult, KeyResumeScore).t # "num"
            \/ Get(analysisResult, KeyStrengths).t # "arr"
            \/ Get(analysisResult, KeyWeaknesses).t # "arr"
         THEN "invalid"
    ELSE "valid"

AnalyzeInit ==
    /\ aPc = "idle"
    /\ aReq = [key |-> TRUE, raw |-> <<>>]
    /\ aCalls = 0
    /\ aPrompt = NoPrompt
    /\ aReply = NoReply
    /\ aResp = NoAnalyzeResp

\* POST, up to the await of openai.chat.completions.create
AnalyzeHandle(req) ==
    LET body == JSONparse(req.raw)
    IN /\ aPc = "idle"
       /\ aReq' = req
       /\ aReply' = NoReply
       /\ IF \/ ~req.key          \* new OpenAI throws without an API key
             \/ ~body.ok          \* request.json() rejects
             \/ body.val.t = "null"   \* body.resumeText of null throws
          THEN /\ aResp' = AnalyzeCaught /\ aPc' = "done"
               /\ UNCHANGED <<aCalls, aPrompt>>
          ELSE LET check == ValidateResumeText(Get(body.val, KeyResumeText))
               IN IF check = "reject"
                  THEN /\ aResp' = AnalyzeError(400, ErrResumeRequired) /\ aPc' = "done"
                       /\ UNCHANGED <<aCalls, aPrompt>>
                  ELSE IF check = "throw"
                  THEN /\ aResp' = AnalyzeCaught /\ aPc' = "done"
                       /\ UNCHANGED <<aCalls, aPrompt>>
                  ELSE /\ aPrompt' = buildPrompt(Get(body.val, KeyResumeText),
                                                 Get(body.val, KeyJobDescription))
                       /\ aCalls' = aCalls + 1
                       /\ aPc' = "calling"
                       /\ aResp' = NoAnalyzeResp

\* a request from any caller reaches POST
AnalyzeRequest(req) ==
    /\ AnalyzeHandle(req)
    /\ UNCHANGED <<evars, cvars>>

\* the completion call is issued once more after it has failed
CompletionThrowsRetried ==
    /\ aPc = "calling"
    /\ aCalls < 3
    /\ aReply' = [k |-> "threw", content |-> <<>>]
    /\ aCalls' = aCalls + 1
    /\ UNCHANGED <<aPc, aReq, aPrompt, aResp>>
    /\ UNCHANGED <<evars, cvars>>

\* openai.chat.completions.create rejects (transport, authentication, ...)
CompletionThrows ==
    /\ aPc = "calling"
    /\ aReply' = [k |-> "threw", content |-> <<>>]
    /\ aResp' = AnalyzeCaught
    /\ aPc' = "done"
    /\ UNCHANGED <<aReq, aCalls, aPrompt>>
    /\ UNCHANGED <<evars, cvars>>

\* the completion has no choices[0].message.content (undefined or null)
CompletionWithoutContent ==
    /\ aPc = "calling"
    /\ aReply' = [k |-> "nocontent", content |-> <<>>]
    /\ aResp' = AnalyzeError(500, ErrNoResponse)
    /\ aPc' = "done"
    /\ UNCHANGED <<aReq, aCalls, aPrompt>>
    /\ UNCHANGED <<evars, cvars>>

\* the completion carries the string `responseContent`
CompletionReturns(responseContent) ==
    LET parsed == JSONparse(responseContent)
    IN /\ aPc = "calling"
       /\ aReply' = [k |-> "content", content |-> responseContent]
       /\ aResp' =
            IF responseContent = <<>> THEN AnalyzeError(500, ErrNoResponse)
            ELSE IF ~parsed.ok THEN AnalyzeErrorContent(ErrParse, responseContent)
            ELSE LET check == ValidateStructure(parsed.val)
                 IN IF check = "throw" THEN AnalyzeCaught
                    ELSE IF check = "invalid"
                         THEN AnalyzeErrorContent(ErrStructure, responseContent)
                    ELSE AnalyzeOk(parsed.val)
       /\ aPc' = "done"
       /\ UNCHANGED <<aReq, aCalls, aPrompt>>
       /\ UNCHANGED <<evars, cvars>>

\* the handler keeps nothing between requests: the next one starts afresh
AnalyzeForget ==
    /\ aPc' = "idle"
    /\ aReq' = [key |-> TRUE, raw |-> <<>>]
    /\ aCalls' = 0
    /\ aPrompt' = NoPrompt
    /\ aReply' = NoReply
    /\ aResp' = NoAnalyzeResp

AnalyzeReset ==
    /\ aPc = "done"
    /\ AnalyzeForget
    /\ UNCHANGED <<evars, cvars>>

(***************************************************************************)
(* The requests and the upstream replies the model draws from.             *)
(***************************************************************************)
\* { members } with the members separated by commas
RECURSIVE JoinMembers(_)
JoinMembers(ms) ==
    IF ms = <<>> THEN <<>>
    ELSE IF Len(ms) = 1 THEN ms[1]
    ELSE ms[1] \o <<Comma>> \o JoinMembers(Tail(ms))

ObjectText(ms) == <<LBrace>> \o JoinMembers(SelectSeq(ms, LAMBDA m : m # <<>>)) \o <<RBrace>>

\* "key": value, or nothing when the value text is empty (the key is absent)
MemberText(key, valueText) ==
    IF valueText = <<>> THEN <<>> ELSE <<Str(key), Colon>> \o valueText

RECURSIVE ArrayText(_)
\* an array of n strings
ArrayText(n) ==
    IF n = 0 THEN <<LBrack, RBrack>>
    ELSE IF n = 1 THEN <<LBrack, Str(<<"a">>), RBrack>>
    ELSE SubSeq(ArrayText(n - 1), 1, Len(ArrayText(n - 1)) - 1)
         \o <<Comma, Str(<<"a">>), RBrack>>

ResumeTextTexts ==
    { <<>>, <<Lit("null")>>, <<Num("0")>>, <<Num("5")>>, <<Lit("false")>>,
      <<LBrack, RBrack>>, <<LBrace, RBrace>> }
    \cup { <<Str(chars)>> : chars \in { <<>>, <<" ">>, <<" ", "\n">>, <<"a">>, <<" ", "a", " ">> } }

JobDescriptionTexts == { <<>>, <<Str(<<>>)>>, <<Str(<<"a">>)>> }

AnalyzeBodies ==
    { <<>>, <<Junk("resume")>>, <<Lit("null")>>, <<Num("5")>>, <<Str(<<"a">>)>>,
      <<LBrack, RBrack>>, <<LBrace>> }
    \cup { ObjectText(<<MemberText(KeyResumeText, r), MemberText(KeyJobDescription, j)>>)
              : r \in ResumeTextTexts, j \in JobDescriptionTexts }

AnalyzeRequests == { [key |-> k, raw |-> b] : k \in BOOLEAN, b \in AnalyzeBodies }

ScoreTexts ==
    { <<>>, <<Num("85")>>, <<Num("150")>>, <<Num("1e999")>>, <<Str(<<"85">>)>>,
      <<Lit("null")>> }
MatchTexts == { <<>>, <<Lit("null")>>, <<Num("72.5")>> }
ListTexts == { <<>>, <<Str(<<"a">>)>> } \cup { ArrayText(n) : n \in 0..MaxItems }

\* replies that are one JSON object over the four keys of the format
ReplyObjects ==
    { ObjectText(<<MemberText(KeyResumeScore, sc), MemberText(KeyMatchPercentage, mp),
                   MemberText(KeyStrengths, st), MemberText(KeyWeaknesses, wk)>>)
        : sc \in ScoreTexts, mp \in MatchTexts, st \in ListTexts, wk \in ListTexts }

\* a complete reply with something around or inside it (white space, a
\* Markdown code fence, one more key, a repeated key)
Variants(t) ==
    { t,
      <<WsTok>> \o t \o <<WsTok>>,
      <<Junk("fence")>> \o t \o <<Junk("fence")>>,
      SubSeq(t, 1, Len(t) - 1) \o <<Comma, Str(<<"summary">>), Colon, Str(<<"a">>), RBrace>>,
      SubSeq(t, 1, Len(t) - 1) \o <<Comma, Str(KeyResumeScore), Colon, Lit("null"), RBrace>> }

\* every proper prefix: a reply cut off by the output-length ceiling
Prefixes(t) == { SubSeq(t, 1, n) : n \in 0..(Len(t) - 1) }

ReplyContents ==
    { <<>>, <<WsTok>>, <<Lit("null")>>, <<Lit("true")>>, <<Num("85")>>, <<Str(<<"a">>)>>,
      <<Junk("Sorry")>>, <<LBrack, RBrack>>, <<LBrack, Num("85"), RBrack>> }
    \cup UNION { Variants(t) : t \in ReplyObjects }
    \cup UNION { Prefixes(t) : t \in ReplyObjects }

AnalyzeNext ==
    \/ \E req \in AnalyzeRequests : AnalyzeRequest(req)
    \/ CompletionThrows
    \/ CompletionWithoutContent
    \/ \E responseContent \in ReplyContents : CompletionReturns(responseContent)
    \/ AnalyzeReset

(***************************************************************************)
(* The client: the Home page with handleAnalyze, and the results page.     *)
(***************************************************************************)
ErrUpload == "Please upload a PDF or Word document (.pdf or .docx)"
ErrInputMissing == "Please upload a resume file or paste the resume text"
ErrExtractFallback == "Failed to extract text"
ErrFetch == "Failed to fetch"
MsgExtracting == "Extracting text from your resume..."
MsgAnalyzing == "AI is analyzing your resume..."

ALLOWED_TYPES == { MimePdf, MimeDocx }
ALLOWED_EXTENSIONS == { DotPdf, DotDocx }

\* selectedFile === null
NoFile == [name |-> <<>>, type |-> "none", bytes |-> "other"]

\* file.name.split(".").pop(): what follows the last ".", the whole name if
\* it has none
RECURSIVE AfterLastDot(_)
AfterLastDot(s) ==
    IF \E i \in 1..Len(s) : s[i] = "."
    THEN AfterLastDot(SubSeq(s, (CHOOSE i \in 1..Len(s) : s[i] = ".") + 1, Len(s)))
    ELSE s

\* validateFile: its result
validateFile(file) ==
    LET extension == <<".">> \o toLowerCase(AfterLastDot(file.name))
    IN ~(extension \notin ALLOWED_EXTENSIONS /\ file.type \notin ALLOWED_TYPES)

\* the input check written without .trim()
InputMissingUntrimmed(file, text) == file = NoFile /\ text = <<>>

\* !selectedFile && !resumeText.trim()
InputMissing(file, text) == file = NoFile /\ trim(text) = <<>>

\* the check of response.ok left out
ResponseOkUnchecked(status) == TRUE

\* response.ok
ResponseOk(status) == status \in 200..299

\* the file is kept without clearing the text
FileSelectedKeepText(file, text) == text

\* setResumeText("") of handleFileSelect
FileSelectedText(file, text) == <<>>

\* JSON.stringify({ resumeText, jobDescription: jobDescription.trim() || undefined })
ClientBody(textToAnalyze, jobDescription) ==
    JSONstringify(JObj(
        <<[key |-> KeyResumeText, val |-> JStr(textToAnalyze)]>>
        \o (IF trim(jobDescription) = <<>> THEN <<>>
            ELSE <<[key |-> KeyJobDescription, val |-> JStr(trim(jobDescription))]>>)))

\* formData.append("file", file)
ClientForm(file) ==
    [body |-> "form", field |-> "file", name |-> file.name, type |-> file.type,
     bytes |-> file.bytes]

\* result.matchPercentage !== null of a result that is rendered
MatchRingRendered(result) ==
    /\ ~Falsy(result)
    /\ Get(result, KeyMatchPercentage) # JNull

\* the state of a freshly mounted Home
HomeFresh ==
    /\ cFile' = NoFile
    /\ cText' = <<>>
    /\ cJob' = <<>>
    /\ cError' = ""
    /\ cLoading' = FALSE
    /\ cMessage' = ""

ClientInit ==
    /\ page = "home"
    /\ storage = <<>>
    /\ cFile = NoFile
    /\ cText = <<>>
    /\ cJob = <<>>
    /\ cError = ""
    /\ cLoading = FALSE
    /\ cMessage = ""
    /\ cPc = "idle"
    /\ cLog = <<>>
    /\ rPc = "unmounted"
    /\ rResult = JNull

\* the form is shown and can be used
FormShown == page = "home" /\ ~cLoading /\ cPc = "idle"

\* handleDrop / handleInputChange: handleFileSelect(file)
HandleFileSelect(file) ==
    /\ FormShown
    /\ IF validateFile(file)
       THEN /\ cError' = ""
            /\ cFile' = file
            /\ cText' = FileSelectedText(file, cText)
       ELSE /\ cError' = ErrUpload
            /\ UNCHANGED <<cFile, cText>>
    /\ UNCHANGED <<page, storage, cJob, cLoading, cMessage, cPc, cLog, rPc, rResult>>
    /\ UNCHANGED <<evars, avars>>

\* handleRemoveFile (the button is there when a file is selected)
HandleRemoveFile ==
    /\ FormShown
    /\ cFile # NoFile
    /\ cFile' = NoFile
    /\ UNCHANGED <<page, storage, cText, cJob, cError, cLoading, cMessage, cPc, cLog, rPc,
                   rResult>>
    /\ UNCHANGED <<evars, avars>>

\* onChange of the resume textarea (disabled while a file is selected)
EditResumeText(value) ==
    /\ FormShown
    /\ cFile = NoFile
    /\ cText' = value
    /\ cFile' = IF trim(value) # <<>> THEN NoFile ELSE cFile
    /\ UNCHANGED <<page, storage, cJob, cError, cLoading, cMessage, cPc, cLog, rPc, rResult>>
    /\ UNCHANGED <<evars, avars>>

\* onChange of the job description textarea
EditJobDescription(value) ==
    /\ FormShown
    /\ cJob' = value
    /\ UNCHANGED <<page, storage, cFile, cText, cError, cLoading, cMessage, cPc, cLog, rPc,
                   rResult>>
    /\ UNCHANGED <<evars, avars>>

\* the catch block without the finally block
FlowFailsStillLoading(message, event) ==
    /\ cError' = message
    /\ cPc' = "idle"
    /\ cLog' = Append(cLog, event)
    /\ ExtractForget
    /\ AnalyzeForget
    /\ UNCHANGED <<page, storage, cFile, cText, cJob, cLoading, cMessage, rPc, rResult>>

\* the catch and finally blocks of handleAnalyze; the server keeps nothing
FlowFails(message, event) ==
    /\ cError' = message
    /\ cLoading' = FALSE
    /\ cMessage' = ""
    /\ cPc' = "idle"
    /\ cLog' = Append(cLog, event)
    /\ ExtractForget
    /\ AnalyzeForget
    /\ UNCHANGED <<page, storage, cFile, cText, cJob, rPc, rResult>>

\* handleAnalyze up to its first await; key: whether the server has its API key
HandleAnalyze(key) ==
    /\ FormShown
    /\ IF InputMissing(cFile, cText)
       THEN /\ cError' = ErrInputMissing
            /\ cLog' = <<>>
            /\ UNCHANGED <<cLoading, cMessage, cPc>>
            /\ UNCHANGED <<evars, avars>>
       ELSE /\ cError' = ""
            /\ cLoading' = TRUE
            /\ IF cFile # NoFile
               THEN /\ cMessage' = MsgExtracting
                    /\ cPc' = "extracting"
                    /\ cLog' = <<"extract sent">>
                    /\ ExtractHandle(ClientForm(cFile))
                    /\ UNCHANGED avars
               ELSE /\ cMessage' = MsgAnalyzing
                    /\ cPc' = "analyzing"
                    /\ cLog' = <<"analyze sent">>
                    /\ AnalyzeHandle([key |-> key, raw |-> ClientBody(cText, cJob)])
                    /\ UNCHANGED evars
    /\ UNCHANGED <<page, storage, cFile, cText, cJob, rPc, rResult>>

\* fetch or response.json() rejects: the network is down, the reply is no JSON
FetchFails ==
    /\ cPc \in { "extracting", "analyzing" }
    /\ FlowFails(ErrFetch, IF cPc = "extracting" THEN "extract failed" ELSE "analyze failed")

\* extractTextFromFile resumes with the response of /api/extract, and
\* handleAnalyze goes on to its second await
ExtractResponse(key) ==
    /\ cPc = "extracting"
    /\ ePc = "done"
    /\ IF ~ResponseOk(eResp.status)
       THEN FlowFails(IF eResp.error # "" THEN eResp.error ELSE ErrExtractFallback,
                      "extract failed")
       ELSE /\ cMessage' = MsgAnalyzing
            /\ cPc' = "analyzing"
            /\ cLog' = cLog \o <<IF eResp.status = 200 THEN "extract ok" ELSE "extract failed",
                                 "analyze sent">>
            /\ AnalyzeHandle([key |-> key, raw |-> ClientBody(eResp.text, cJob)])
            /\ UNCHANGED evars
            /\ UNCHANGED <<page, storage, cFile, cText, cJob, cError, cLoading, rPc, rResult>>

\* handleAnalyze resumes with the response of /api/analyze
AnalyzeResponse ==
    /\ cPc = "analyzing"
    /\ aPc = "done"
    /\ IF ~ResponseOk(aResp.status)
       THEN FlowFails(IF aResp.error # "" THEN aResp.error ELSE ErrAnalyzeFailed,
                      "analyze failed")
       ELSE \* sessionStorage.setItem, router.push("/results"); Home is unmounted
            /\ storage' = JSONstringify(JSONparse(aResp.body).val)
            /\ page' = "results"
            /\ rPc' = "loading"
            /\ rResult' = JNull
            /\ cPc' = "idle"
            /\ cLog' = cLog \o <<IF aResp.status = 200 THEN "analyze ok" ELSE "analyze failed",
                                 "stored", "navigated">>
            /\ HomeFresh
            /\ ExtractForget
            /\ AnalyzeForget

\* router.push("/") from the results page: Home is mounted afresh
GoHome ==
    /\ page' = "home"
    /\ rPc' = "unmounted"
    /\ rResult' = JNull
    /\ HomeFresh
    /\ UNCHANGED <<cPc, cLog>>
    /\ UNCHANGED <<evars, avars>>

\* the effect of ResultsPage that loads the result from session storage
ResultsEffect ==
    /\ page = "results"
    /\ rPc = "loading"
    /\ IF storage # <<>> /\ JSONparse(storage).ok
       THEN /\ rResult' = JSONparse(storage).val
            /\ rPc' = "shown"
            /\ UNCHANGED <<page, storage, cFile, cText, cJob, cError, cLoading, cMessage, cPc,
                           cLog>>
            /\ UNCHANGED <<evars, avars>>
       ELSE /\ GoHome
            /\ UNCHANGED storage

\* the page renders its buttons only with a result
ResultsRendered == page = "results" /\ rPc = "shown" /\ ~Falsy(rResult)

\* handleAnalyzeAnother: the "Analyze Another Resume" button
HandleAnalyzeAnother ==
    /\ ResultsRendered
    /\ storage' = <<>>
    /\ GoHome

\* onClick of the header title
TitleClick ==
    /\ ResultsRendered
    /\ UNCHANGED storage
    /\ GoHome

\* the user opens /results by its address
OpenResults ==
    /\ FormShown
    /\ page' = "results"
    /\ rPc' = "loading"
    /\ rResult' = JNull
    /\ HomeFresh
    /\ UNCHANGED <<storage, cPc, cLog>>
    /\ UNCHANGED <<evars, avars>>

(***************************************************************************)
(* The files, texts and replies the client specification draws from.       *)
(***************************************************************************)
ClientNames ==
    { <<"a", ".", "p", "d", "f">>, <<"A", ".", "P", "D", "F">>,
      <<"a", ".", "d", "o", "c", "x">>, <<"a", ".", "d", "o", "c">>,
      <<"a", ".", "t", "x", "t">>, <<"p", "d", "f">>, <<"a">> }

ClientFiles ==
    { [name |-> n, type |-> t, bytes |-> "pdf"] : n \in ClientNames, t \in MimeTypes }

ClientResumeTexts == { <<>>, <<" ">>, <<"a">>, <<" ", "a", " ">> }

ClientJobTexts == { <<>>, <<" ">>, <<"a">> }

ClientParsedTexts ==
    { [arr |-> FALSE, pages |-> <<t>>] : t \in { <<>>, <<"\n">>, <<"a">>, <<"a", "\n", " ">> } }
    \cup { [arr |-> TRUE, pages |-> <<<<"a">>, <<"a">>>>] }

ClientReplies ==
    { <<>>, <<Lit("null")>>, <<Junk("Sorry")>>,
      ObjectText(<<MemberText(KeyResumeScore, <<Num("85")>>)>>) }
    \cup { ObjectText(<<MemberText(KeyResumeScore, <<Num("85")>>),
                        MemberText(KeyMatchPercentage, mp),
                        MemberText(KeyStrengths, ArrayText(1)),
                        MemberText(KeyWeaknesses, ArrayText(0))>>)
              : mp \in MatchTexts \cup { <<Str(<<"72">>)>> } }

ClientNext ==
    \/ \E file \in ClientFiles : HandleFileSelect(file)
    \/ HandleRemoveFile
    \/ \E value \in ClientResumeTexts : EditResumeText(value)
    \/ \E value \in ClientJobTexts : EditJobDescription(value)
    \/ \E key \in BOOLEAN : HandleAnalyze(key)
    \/ FetchFails
    \/ \E key \in BOOLEAN : ExtractResponse(key)
    \/ AnalyzeResponse
    \/ ResultsEffect
    \/ HandleAnalyzeAnother
    \/ TitleClick
    \/ OpenResults
    \/ ParserThrows
    \/ \E text \in ClientParsedTexts : PdfParserReturns(text)
    \/ \E text \in ClientParsedTexts : DocxParserReturns(text)
    \/ CompletionThrows
    \/ CompletionWithoutContent
    \/ \E responseContent \in ClientReplies : CompletionReturns(responseContent)

(***************************************************************************)
(* Specifications: each endpoint serving requests of any caller one after  *)
(* the other, and the client with the two endpoints behind it.             *)
(***************************************************************************)
Init == ExtractInit /\ AnalyzeInit /\ ClientInit

SpecClient == Init /\ [][ClientNext]_vars

SpecExtract == Init /\ [][ExtractNext]_vars

SpecAnalyze == Init /\ [][AnalyzeNext]_vars

(***************************************************************************)
(* Properties of /api/extract (checked under SpecExtract).                 *)
(***************************************************************************)
\* s ends in suffix, the letters in either case
EndsWithAnyCase(s, suffix) ==
    /\ Len(suffix) <= Len(s)
    /\ \A i \in 1..Len(suffix) :
          s[Len(s) - Len(suffix) + i] \in { suffix[i], UpperChar(suffix[i]) }

\* an uploaded file is being, or has been, handled
FileInFlight == ePc # "idle" /\ eReq.body = "form" /\ eReq.field = "file"

AllWs(s) == \A i \in 1..Len(s) : IsWs(s[i])

\* C5: an upload whose file name ends in ".doc", in any letter case, is
\* answered 400 with the legacy-format message, whatever its content and
\* declared type, and no parser is invoked for it.
C5_LegacyDocRejected ==
    (FileInFlight /\ EndsWithAnyCase(eReq.name, DotDoc))
        => /\ ePc = "done"
           /\ eParser = "none"
           /\ eParsed = "no"
           /\ eResp = ExtractError(400, ErrLegacyDoc)

C5_Witness ==
    /\ ePc = "done"
    /\ FileInFlight
    /\ EndsWithAnyCase(eReq.name, DotDoc)
    /\ eReq.name # toLowerCase(eReq.name)
    /\ eReq.type = MimePdf
    /\ eReq.bytes = "pdf"
    /\ eResp.status = 400
    /\ eResp.error = ErrLegacyDoc

\* C6: the parser is chosen from the file name's suffix alone, letters in
\* either case: ".pdf" the PDF extractor, ".docx" the Word extractor; any other
\* name is answered 400 with the unsupported-format or the legacy message and
\* no parser is invoked.  Declared type and bytes play no part.
C6_DispatchBySuffix ==
    FileInFlight =>
        /\ (eParser = "pdf") <=> EndsWithAnyCase(eReq.name, DotPdf)
        /\ (eParser = "docx") <=> EndsWithAnyCase(eReq.name, DotDocx)
        /\ (~EndsWithAnyCase(eReq.name, DotPdf) /\ ~EndsWithAnyCase(eReq.name, DotDocx))
              => /\ ePc = "done"
                 /\ eParser = "none"
                 /\ eParsed = "no"
                 /\ eResp.status = 400
                 /\ eResp.error \in { ErrUnsupported, ErrLegacyDoc }
                 /\ eResp.text = <<>>

C6_Witness ==
    /\ ePc = "done"
    /\ FileInFlight
    /\ eParser = "pdf"
    /\ eReq.type = MimeDocx
    /\ eReq.bytes = "other"
    /\ eReq.name # toLowerCase(eReq.name)
    /\ eResp.status = 200

\* C7: when the parser returns a text without any non-white-space character
\* the answer is 400 with the empty-or-corrupt error, and the text of every
\* 200 answer is non-empty and neither starts nor ends with white space.
C7_EmptyTextRejected ==
    /\ (ePc = "done" /\ eParsed = "returned" /\ AllWs(eRaw))
          => eResp = ExtractError(400, ErrEmptyOrCorrupt)
    /\ (ePc = "done" /\ eResp.status = 200)
          => /\ eParsed = "returned"
             /\ eResp.text # <<>>
             /\ ~IsWs(eResp.text[1])
             /\ ~IsWs(eResp.text[Len(eResp.text)])

C7_Witness ==
    /\ ePc = "done"
    /\ eParsed = "returned"
    /\ eRaw # <<>>
    /\ AllWs(eRaw)
    /\ eResp.status = 400
    /\ eResp.error = ErrEmptyOrCorrupt

\* C8: the clean-up is idempotent: cleaning the cleaned text of any extracted
\* text gives the cleaned text again.
C8_CleanUpIdempotent ==
    (ePc = "done" /\ eParsed = "returned")
        => /\ CleanUp(CleanUp(eRaw)) = CleanUp(eRaw)
           /\ eResp.status = 200 => CleanUp(eResp.text) = eResp.text

C8_Witness ==
    /\ ePc = "done"
    /\ eParsed = "returned"
    /\ eResp.status = 200
    /\ eResp.text # eRaw
    /\ \E i \in 2..(Len(eRaw) - 2) :
          ~IsWs(eRaw[i - 1]) /\ IsWs(eRaw[i]) /\ IsWs(eRaw[i + 1]) /\ ~IsWs(eRaw[i + 2])

\* the text has two paragraphs with at least one blank line between them
HasBlankLine(s) ==
    \E i \in 2..(Len(s) - 2) :
        /\ s[i] = "\n" /\ s[i + 1] = "\n"
        /\ \E j \in 1..(i - 1) : ~IsWs(s[j])
        /\ \E j \in (i + 2)..Len(s) : ~IsWs(s[j])

\* C9: extracted text whose paragraphs are separated by one or more blank
\* lines comes out with the paragraphs separated by exactly one blank line,
\* "\n\n" (and never more than one).
C9_BlankLineKept ==
    (ePc = "done" /\ eParsed = "returned" /\ eResp.status = 200 /\ HasBlankLine(eRaw))
        => /\ includes(eResp.text, <<"\n", "\n">>)
           /\ ~includes(eResp.text, <<"\n", "\n", "\n">>)

(***************************************************************************)
(* Properties of /api/analyze (checked under SpecAnalyze).                 *)
(***************************************************************************)
\* the body is JSON whose resumeText is missing, empty or white space only
BlankResumeText(req) ==
    LET body == JSONparse(req.raw)
        resumeText == Get(body.val, KeyResumeText)
    IN /\ body.ok
       /\ \/ resumeText = Undefined
          \/ resumeText.t = "str" /\ AllWs(resumeText.s)

\* C1: a request whose resumeText is missing, empty or white space only is
\* answered 400 with an error, and no completion call is issued for it at any
\* point.
C1_BlankRejectedBeforeCall ==
    (aPc # "idle" /\ BlankResumeText(aReq))
        => /\ aPc = "done"
           /\ aCalls = 0
           /\ aResp.status = 400
           /\ aResp.error # ""

\* the reply has no numeric resumeScore, or its strengths or its weaknesses
\* is not an array
BadStructure(v) ==
    \/ Get(v, KeyResumeScore).t # "num"
    \/ Get(v, KeyStrengths).t # "arr"
    \/ Get(v, KeyWeaknesses).t # "arr"

\* C2: upstream content that parses as JSON (any JSON value) but has a bad
\* structure is answered 500 with the invalid-structure error and the raw
\* content as details.
C2_BadStructureReported ==
    (aPc = "done" /\ aReply.k = "content" /\ JSONparse(aReply.content).ok
        /\ BadStructure(JSONparse(aReply.content).val))
        => aResp = [status |-> 500, error |-> ErrStructure,
                    details |-> [k |-> "content", s |-> aReply.content], body |-> <<>>]

\* C3: non-empty upstream content that does not parse as JSON is answered 500
\* with the malformed-response error and the raw content as details, never
\* with a success payload.
C3_MalformedReported ==
    (aPc = "done" /\ aReply.k = "content" /\ aReply.content # <<>>
        /\ ~JSONparse(aReply.content).ok)
        => /\ aResp.status = 500
           /\ aResp.error = ErrParse
           /\ aResp.details = [k |-> "content", s |-> aReply.content]
           /\ aResp.body = <<>>

C3_Witness ==
    /\ aPc = "done"
    /\ aReply.k = "content"
    /\ Len(aReply.content) > 2
    /\ aReply.content[1].k = "junk"
    /\ JSONparse(SubSeq(aReply.content, 2, Len(aReply.content) - 1)).ok
    /\ ~JSONparse(aReply.content).ok
    /\ aResp.status = 500
    /\ aResp.error = ErrParse

\* C4: the body of a 200 answer, read back as JSON, is the parsed upstream
\* object: nothing added, removed, clamped or rounded.
C4_ForwardedUnchanged ==
    (aPc = "done" /\ aResp.status = 200)
        => /\ aReply.k = "content"
           /\ JSONparse(aResp.body).ok
           /\ JSONparse(aResp.body).val = JSONparse(aReply.content).val

\* C10: a failing request gets an error payload whose status is 400 when the
\* cause is what the caller sent, and 500 only when a parser, the upstream
\* call or its reply (or the missing credential) is the cause.
C10_StatusByCause ==
    /\ (ePc = "done" /\ eResp.status # 200)
          => /\ eResp.error # ""
             /\ eResp.status = IF eParsed = "threw" THEN 500 ELSE 400
    /\ (aPc = "done" /\ aResp.status # 200)
          => /\ aResp.error # ""
             /\ aResp.status = IF aCalls > 0 \/ ~aReq.key THEN 500 ELSE 400

\* C11: a request issues at most one completion call; when the call fails no
\* further call is made and the one answer is 500 "Failed to analyze resume".
C11_SingleCallNoRetry ==
    /\ aCalls <= 1
    /\ aReply.k = "threw"
          => /\ aPc = "done"
             /\ aCalls = 1
             /\ aResp.status = 500
             /\ aResp.error = ErrAnalyzeFailed
             /\ aResp.body = <<>>

C11_Witness ==
    /\ aPc = "done"
    /\ aReply.k = "threw"
    /\ aCalls = 1
    /\ aResp.status = 500

(***************************************************************************)
(* Properties of the client flow (checked under SpecClient).               *)
(***************************************************************************)
\* the courses a flow can take, step by step
LinearLogs ==
    { <<>>,
      <<"extract sent">>,
      <<"extract sent", "extract failed">>,
      <<"extract sent", "extract ok", "analyze sent">>,
      <<"extract sent", "extract ok", "analyze sent", "analyze failed">>,
      <<"extract sent", "extract ok", "analyze sent", "analyze ok", "stored", "navigated">>,
      <<"analyze sent">>,
      <<"analyze sent", "analyze failed">>,
      <<"analyze sent", "analyze ok", "stored", "navigated">> }

\* C12: a flow is linear, Idle -> (Extracting, only with a file selected) ->
\* Analyzing -> Success or Failure: /api/analyze is requested only after
\* /api/extract has answered successfully, never after a failed extraction,
\* and no step happens twice in a flow.
C12_LinearFlow ==
    /\ cLog \in LinearLogs
    /\ cPc = "extracting" <=> cLog = <<"extract sent">>
    /\ cPc = "analyzing" <=> (cLog # <<>> /\ cLog[Len(cLog)] = "analyze sent")
    /\ cPc = "extracting" => (cFile # NoFile /\ ePc # "idle" /\ aPc = "idle")
    /\ cPc = "analyzing"
          => /\ aPc # "idle"
             /\ cFile # NoFile <=> cLog[1] = "extract sent"
             /\ cFile # NoFile => (ePc = "done" /\ eResp.status = 200)

C12_Witness ==
    /\ cLog = <<"extract sent", "extract ok", "analyze sent", "analyze ok", "stored",
                "navigated">>
    /\ page = "results"
    /\ storage # <<>>

\* a step that ends a flow in failure
FlowFailed ==
    /\ cPc # "idle"
    /\ cPc' = "idle"
    /\ cLog'[Len(cLog')] \in { "extract failed", "analyze failed" }

\* C13: when extraction or analysis fails, the client ends in the idle input
\* state with isLoading false, no loading message and an error message, and
\* the flow neither writes session storage nor navigates.
C13_FailureReturnsToIdle ==
    [][FlowFailed => /\ page' = "home"
                     /\ page = "home"
                     /\ ~cLoading'
                     /\ cMessage' = ""
                     /\ cError' # ""
                     /\ storage' = storage
                     /\ ~("stored" \in { cLog'[i] : i \in 1..Len(cLog') })
                     /\ rPc' = rPc]_vars

C13_Witness ==
    /\ cLog = <<"extract sent", "extract ok", "analyze sent", "analyze failed">>
    /\ cPc = "idle"
    /\ page = "home"
    /\ ~cLoading
    /\ cError = ErrStructure

\* C14: after the user has left the results view for the input page by a
\* route the page offers (the button, the header title), session storage
\* holds no "analysisResult".
C14_StorageDiscarded ==
    [][(ResultsRendered /\ page' = "home") => storage' = <<>>]_vars

\* C15: the results view shows the Job Match ring exactly when the stored
\* result's matchPercentage is a number; none for null or a missing one.
C15_RingOnlyForNumber ==
    ResultsRendered
        => (MatchRingRendered(rResult) <=> Get(rResult, KeyMatchPercentage).t = "num")

\* C16: in the form a file is never selected while the pasted text is
\* non-blank.
C16_FileOrText ==
    ~(cFile # NoFile /\ trim(cText) # <<>>)

C16_Witness ==
    /\ FormShown
    /\ cFile # NoFile
    /\ cText = <<>>
    /\ cError = ""

\* C17: a file that validateFile accepted, once uploaded, is never answered
\* by /api/extract with the unsupported-format or the legacy-.doc error.
C17_ClientServerAgree ==
    (cPc = "extracting" /\ ePc # "idle")
        => /\ eParser \in { "pdf", "docx" }
           /\ eResp.error \notin { ErrUnsupported, ErrLegacyDoc }

\* C18: every /api/analyze request of the flow carries a non-blank resumeText,
\* the pasted text or the text of a successful extraction; nothing is sent
\* without a file or non-blank text; "Resume text is required" is never the
\* answer.
C18_NonBlankSent ==
    /\ cPc = "idle" => (aPc = "idle" /\ ePc = "idle")
    /\ aPc # "idle"
          => /\ cPc = "analyzing"
             /\ JSONparse(aReq.raw).ok
             /\ LET resumeText == Get(JSONparse(aReq.raw).val, KeyResumeText)
                IN /\ resumeText.t = "str"
                   /\ ~AllWs(resumeText.s)
                   /\ resumeText.s = IF cFile = NoFile THEN cText ELSE eResp.text
             /\ aResp.error # ErrResumeRequired
             /\ aResp.status # 400

C18_Witness ==
    /\ cPc = "analyzing"
    /\ cFile # NoFile
    /\ aPc = "done"
    /\ eRaw # eResp.text
    /\ aResp.status = 200

====
